---- MODULE Spec2Model ----
(***************************************************************************)
(* Model of the ad-slide builder: the template registry                    *)
(* (src/src/template_manager.py), the compositor (src/src/image_ops.py),   *)
(* the extraction client (src/src/nano_banana.py) and the client           *)
(* construction in src/app.py.                                             *)
(*                                                                         *)
(* Strings whose characters matter (texts that are split, stripped or      *)
(* measured) are sequences of one-character strings.  Python floats are    *)
(* IEEE-754 binary64 values, modelled bit for bit: a value is zero or a    *)
(* 53-bit mantissa with the exponent of its leading bit, and every         *)
(* operation rounds to nearest, ties to even.                              *)
(***************************************************************************)
EXTENDS Integers, Sequences, FiniteSets, TLC

VARIABLES
    \* compositor, paste_centered
    overlay_size, product_area, new_size, paste_at, fit_pc,
    \* compositor, wrap_text
    text, width, wrapped, wrap_pc,
    \* compositor, draw_text_fields
    text_specs, text_payload, drawn, draw_pc,
    \* extraction client
    client, calls, errors, response, result, raised, ext_pc,
    \* template registry
    config, _templates, listed, got, reg_pc

fitVars  == <<overlay_size, product_area, new_size, paste_at, fit_pc>>
wrapVars == <<text, width, wrapped, wrap_pc>>
drawVars == <<text_specs, text_payload, drawn, draw_pc>>
extVars  == <<client, calls, errors, response, result, raised, ext_pc>>
regVars  == <<config, _templates, listed, got, reg_pc>>
vars     == <<fitVars, wrapVars, drawVars, extVars, regVars>>

\* Python's None, where a string is expected
None == "<None>"

Max(a, b) == IF a >= b THEN a ELSE b

(***************************************************************************)
(* Bounds.                                                                 *)
(***************************************************************************)
MaxSrc == 11        \* largest width/height of a product image
MaxTarget == 15     \* largest width/height of a product area
MaxPos == 1         \* largest x of a product area, besides the example's

(***************************************************************************)
(* binary64 arithmetic, as CPython's float uses it.  A non-zero value is   *)
(* (1 + m / 2^52) * 2^e; the 52 fraction bits m are held as four limbs of  *)
(* 13 bits, most significant first, so that every intermediate value fits  *)
(* a 32-bit integer.                                                       *)
(***************************************************************************)
LimbBits == 13
Limbs == 4
LimbBase == 2 ^ LimbBits

FloatZero == [z |-> TRUE, e |-> 0, m |-> <<0, 0, 0, 0>>]

\* scale n/d by powers of two until d <= n < 2d; e is the binary exponent
RECURSIVE NormQuot(_, _, _)
NormQuot(n, d, e) ==
    IF n < d THEN NormQuot(2 * n, d, e - 1)
    ELSE IF n >= 2 * d THEN NormQuot(n, 2 * d, e + 1)
    ELSE <<n, d, e>>

\* long division: k limbs of the fraction r/d, and the last remainder
RECURSIVE DivLimbs(_, _, _, _)
DivLimbs(r, d, k, acc) ==
    IF k = 0 THEN <<acc, r>>
    ELSE DivLimbs((r * LimbBase) % d, d, k - 1, Append(acc, (r * LimbBase) \div d))

RECURSIVE IncLimbs(_, _)
IncLimbs(m, i) ==
    IF i = 0 THEN m
    ELSE IF m[i] < LimbBase - 1 THEN [m EXCEPT ![i] = m[i] + 1]
    ELSE IncLimbs([m EXCEPT ![i] = 0], i - 1)

\* the value, rounded up by one unit in the last place when `up`
RoundUlp(m, e, up) ==
    IF ~up THEN [z |-> FALSE, e |-> e, m |-> m]
    ELSE IF \A i \in 1..Limbs : m[i] = LimbBase - 1
         THEN [z |-> FALSE, e |-> e + 1, m |-> <<0, 0, 0, 0>>]
         ELSE [z |-> FALSE, e |-> e, m |-> IncLimbs(m, Limbs)]

\* a / b for ints a >= 0, b > 0: true division, rounded to nearest, ties to even
FloatDiv(a, b) ==
    IF a = 0 THEN FloatZero
    ELSE LET nd == NormQuot(a, b, 0)
             q  == DivLimbs(nd[1] - nd[2], nd[2], Limbs, <<>>)
             up == 2 * q[2] > nd[2] \/ (2 * q[2] = nd[2] /\ q[1][Limbs] % 2 = 1)
         IN  RoundUlp(q[1], nd[3], up)

\* the exact product of (2^52 + m) and the integer n: a leading limb and four more
RECURSIVE MulLimbs(_, _, _, _, _)
MulLimbs(m, i, n, carry, acc) ==
    IF i = 0 THEN <<n + carry>> \o acc
    ELSE LET t == n * m[i] + carry
         IN  MulLimbs(m, i - 1, n, t \div LimbBase, <<t % LimbBase>> \o acc)

RECURSIVE BitLength(_)
BitLength(n) == IF n = 0 THEN 0 ELSE 1 + BitLength(n \div 2)

\* n * f for an int n >= 0 (n converts exactly) and a float f: the exact
\* product, rounded to 53 bits to nearest, ties to even
FloatMulInt(n, f) ==
    IF f.z \/ n = 0 THEN FloatZero
    ELSE LET p    == MulLimbs(f.m, Limbs, n, 0, <<>>)
             k    == BitLength(p[1]) - 1
             low  == 2 ^ k
             kept == [i \in 1..Limbs |->
                        (p[i] % low) * (LimbBase \div low) + (p[i + 1] \div low)]
             lost == p[Limbs + 1] % low
             up   == /\ k > 0
                     /\ lost \div (low \div 2) = 1
                     /\ (lost % (low \div 2) # 0 \/ kept[Limbs] % 2 = 1)
         IN  RoundUlp(kept, f.e + k, up)

RECURSIVE LimbsLess(_, _, _)
LimbsLess(a, b, i) ==
    IF i > Limbs THEN FALSE
    ELSE IF a[i] # b[i] THEN a[i] < b[i]
    ELSE LimbsLess(a, b, i + 1)

\* a < b for non-negative floats
FloatLess(a, b) ==
    IF b.z THEN FALSE
    ELSE IF a.z THEN TRUE
    ELSE IF a.e # b.e THEN a.e < b.e
    ELSE LimbsLess(a.m, b.m, 1)

\* min(a, b): the first argument unless the second is smaller
FloatMin(a, b) == IF FloatLess(b, a) THEN b ELSE a

\* int(f): truncation toward zero of a non-negative float below 2^26
FloatToInt(f) ==
    IF f.z \/ f.e < 0 THEN 0
    ELSE IF f.e <= LimbBits
         THEN 2 ^ f.e + f.m[1] \div (2 ^ (LimbBits - f.e))
         ELSE 2 ^ f.e + f.m[1] * 2 ^ (f.e - LimbBits)
                      + f.m[2] \div (2 ^ (2 * LimbBits - f.e))

(***************************************************************************)
(* Compositor: proportional fit and centring.                              *)
(***************************************************************************)
\* a mutation of scaled_dim: the scaled dimension is rounded half up
scaled_dim_nearest(d, scale) ==
    LET twice == FloatToInt(FloatMulInt(2 * d, scale))
    IN  Max(1, (twice + 1) \div 2)

\* max(1, int(d * scale))
scaled_dim(d, scale) == Max(1, FloatToInt(FloatMulInt(d, scale)))

\* the size resize_to_fit gives an image of size <<w, h>>
resize_to_fit(size, target_w, target_h) ==
    LET w == size[1]
        h == size[2]
        scale == FloatMin(FloatDiv(target_w, w), FloatDiv(target_h, h))
    IN  <<scaled_dim(w, scale), scaled_dim(h, scale)>>

\* a mutation of paste_offset: the margin is not halved
paste_offset_full_margin(origin, extent, scaled) == origin + (extent - scaled)

\* origin + (extent - scaled) // 2, floor division
paste_offset(origin, extent, scaled) == origin + ((extent - scaled) \div 2)

\* the end-to-end example of the design: a 400x100 cut-out, area (100,100,200,200)
ExampleFit == [size |-> <<400, 100>>, area |-> <<100, 100, 200, 200>>]

\* the corners a product area may have
Positions == {<<p, 100 - p>> : p \in 0..MaxPos}

FitInputs ==
    {[size |-> <<W, H>>, area |-> <<xy[1], xy[2], w, h>>] :
        W \in 1..MaxSrc, H \in 1..MaxSrc, xy \in Positions,
        w \in 0..MaxTarget, h \in 0..MaxTarget}
    \cup {ExampleFit}

FitIdle ==
    /\ overlay_size = <<1, 1>> /\ product_area = <<0, 0, 0, 0>>
    /\ new_size = <<0, 0>> /\ paste_at = <<0, 0>> /\ fit_pc = "off"

FitInit ==
    /\ \E inp \in FitInputs :
          /\ overlay_size = inp.size
          /\ product_area = inp.area
    /\ new_size = <<0, 0>>
    /\ paste_at = <<0, 0>>
    /\ fit_pc = "ready"

\* paste_centered(base, overlay, x, y, width, height)
paste_centered ==
    /\ fit_pc = "ready"
    /\ LET x == product_area[1]
           y == product_area[2]
           aw == product_area[3]
           ah == product_area[4]
           sz == resize_to_fit(overlay_size, aw, ah)
       IN  /\ new_size' = sz
           /\ paste_at' = <<paste_offset(x, aw, sz[1]), paste_offset(y, ah, sz[2])>>
    /\ fit_pc' = "pasted"
    /\ UNCHANGED <<overlay_size, product_area>>
    /\ UNCHANGED <<wrapVars, drawVars, extVars, regVars>>

(***************************************************************************)
(* Compositor: word wrap and text fields.                                  *)
(***************************************************************************)
MaxTextLen == 5     \* longest text handed to wrap_text on its own
MaxWidth == 4       \* largest wrap width handed to wrap_text on its own
MaxPriceLen == 4    \* longest enumerated price string

Whitespace == {" ", "\n", "\t"}

\* all strings over an alphabet, up to a length
StringsUpTo(alphabet, n) == UNION {[1..k -> alphabet] : k \in 0..n}

RECURSIVE lstrip(_)
lstrip(s) ==
    IF s # <<>> /\ Head(s) \in Whitespace THEN lstrip(Tail(s)) ELSE s

RECURSIVE rstrip(_)
rstrip(s) ==
    IF s # <<>> /\ s[Len(s)] \in Whitespace
    THEN rstrip(SubSeq(s, 1, Len(s) - 1)) ELSE s

\* str.strip()
strip(s) == rstrip(lstrip(s))

\* str.split(): the maximal runs of non-whitespace characters
RECURSIVE split_from(_, _, _, _)
split_from(s, i, word, acc) ==
    IF i > Len(s) THEN (IF word # <<>> THEN Append(acc, word) ELSE acc)
    ELSE IF s[i] \in Whitespace
         THEN split_from(s, i + 1, <<>>, IF word # <<>> THEN Append(acc, word) ELSE acc)
         ELSE split_from(s, i + 1, Append(word, s[i]), acc)

split(s) == split_from(s, 1, <<>>, <<>>)

\* sep.join(parts)
RECURSIVE join(_, _)
join(sep, parts) ==
    IF parts = <<>> THEN <<>>
    ELSE IF Len(parts) = 1 THEN parts[1]
    ELSE parts[1] \o sep \o join(sep, Tail(parts))

\* a mutation of flush_line: the words left after the loop are dropped
flush_line_dropped(lines, current) == lines

\* if current: lines.append(" ".join(current))
flush_line(lines, current) ==
    IF current # <<>> THEN Append(lines, join(<<" ">>, current)) ELSE lines

\* the loop of wrap_text over words[i..]
RECURSIVE wrap_loop(_, _, _, _, _)
wrap_loop(words, i, current, lines, w) ==
    IF i > Len(words) THEN flush_line(lines, current)
    ELSE LET cur == Append(current, words[i])
         IN  IF Len(join(<<" ">>, cur)) >= w
             THEN wrap_loop(words, i + 1, <<>>, Append(lines, join(<<" ">>, cur)), w)
             ELSE wrap_loop(words, i + 1, cur, lines, w)

\* the lines wrap_text builds
wrap_lines(t, w) ==
    IF t = <<>> THEN <<>>
    ELSE LET words == split(strip(t))
         IN  IF words = <<>> THEN <<>> ELSE wrap_loop(words, 1, <<>>, <<>>, w)

wrap_text(t, w) == join(<<"\n">>, wrap_lines(t, w))

WrapAlphabet == {"a", "b", " ", "\n"}

WrapIdle == text = <<>> /\ width = 0 /\ wrapped = <<>> /\ wrap_pc = "off"

WrapInit ==
    /\ text \in StringsUpTo(WrapAlphabet, MaxTextLen)
    /\ width \in 0..MaxWidth
    /\ wrapped = <<>>
    /\ wrap_pc = "ready"

\* a call wrap_text(text, width)
WrapText ==
    /\ wrap_pc = "ready"
    /\ wrapped' = wrap_text(text, width)
    /\ wrap_pc' = "wrapped"
    /\ UNCHANGED <<text, width>>
    /\ UNCHANGED <<fitVars, drawVars, extVars, regVars>>

\* "abc" as a sequence of characters, for the sample texts
Widget == <<"W", "i", "d", "g", "e", "t">>
LongCopy == <<"L", "i", "m", "i", "t", "e", "d", " ", "t", "i", "m", "e", " ",
              "o", "f", "f", "e", "r", " ", "o", "n", " ", "a", "l", "l", " ",
              "w", "i", "d", "g", "e", "t", "s">>
LongPrice == <<"$", "9", ".", "9", "9", " ", "e", "a", "c", "h", " ", "o", "r",
               " ", "2", " ", "f", "o", "r", " ", "$", "1", "5", " ", "n", "o", "w">>

PriceStrings == StringsUpTo({"9", " "}, MaxPriceLen) \cup {LongPrice}

\* the keys a template lays out, and the keys a payload may hold
LayoutKeys == {"product_name", "price", "tagline"}
PayloadKeys == {"product_name", "price", "spanish_copy"}

PayloadTexts(key) ==
    IF key = "price" THEN PriceStrings
    ELSE IF key = "product_name" THEN {<<>>, Widget, LongCopy}
    ELSE {<<" ">>, LongCopy}

\* a payload entry: absent, or present with a text
PayloadEntry(key) ==
    {[present |-> FALSE, v |-> <<>>]}
    \cup {[present |-> TRUE, v |-> t] : t \in PayloadTexts(key)}

MakePayload(choice) ==
    [k \in {j \in PayloadKeys : choice[j].present} |-> choice[k].v]

Payloads ==
    {MakePayload([product_name |-> a, price |-> b, spanish_copy |-> c]) :
        a \in PayloadEntry("product_name"),
        b \in PayloadEntry("price"),
        c \in PayloadEntry("spanish_copy")}

\* the orders in which a template may list a subset of its keys
Layouts ==
    {s \in UNION {[1..k -> LayoutKeys] : k \in 0..Cardinality(LayoutKeys)} :
        \A i, j \in DOMAIN s : i # j => s[i] # s[j]}

\* the TextFieldSpec of a key
FieldSpec(key) ==
    [x |-> 10, y |-> IF key = "price" THEN 40 ELSE 80, size |-> 12, color |-> "#000000"]

\* a mutation of wrap_width: the price field wraps like any other field
wrap_width_price_20(key, content) == 20

\* a mutation of wrap_width: wrap_text's own default width
wrap_width_default_22(key, content) ==
    IF key # "price" THEN 22 ELSE Len(content) + 4

\* 20 if key != "price" else len(content) + 4
wrap_width(key, content) ==
    IF key # "price" THEN 20 ELSE Len(content) + 4

\* not text_payload.get(key)
no_content(payload, key) == key \notin DOMAIN payload \/ payload[key] = <<>>

\* the loop of draw_text_fields over text_specs[i..]: the multiline_text calls
RECURSIVE draw_loop(_, _, _, _)
draw_loop(specs, payload, i, acc) ==
    IF i > Len(specs) THEN acc
    ELSE LET key == specs[i]
         IN  IF no_content(payload, key)
             THEN draw_loop(specs, payload, i + 1, acc)
             ELSE LET content == payload[key]
                      w == wrap_width(key, content)
                      spec == FieldSpec(key)
                  IN  draw_loop(specs, payload, i + 1,
                          Append(acc, [key |-> key, xy |-> <<spec.x, spec.y>>,
                                       text |-> wrap_text(content, w),
                                       width |-> w, fill |-> spec.color,
                                       spacing |-> 6]))

DrawIdle ==
    /\ text_specs = <<>> /\ text_payload = <<>> /\ drawn = <<>> /\ draw_pc = "off"

DrawInit ==
    /\ text_specs \in Layouts
    /\ text_payload \in Payloads
    /\ drawn = <<>>
    /\ draw_pc = "ready"

\* draw_text_fields(image, text_specs, text_payload)
draw_text_fields ==
    /\ draw_pc = "ready"
    /\ drawn' = draw_loop(text_specs, text_payload, 1, <<>>)
    /\ draw_pc' = "drawn"
    /\ UNCHANGED <<text_specs, text_payload>>
    /\ UNCHANGED <<fitVars, wrapVars, extVars, regVars>>

(***************************************************************************)
(* Extraction client.                                                      *)
(***************************************************************************)
\* bool(s) of an optional string
truthy(s) == s # None /\ s # ""

\* a or b
or_else(a, b) == IF truthy(a) THEN a ELSE b

\* str.lower() on the values the mock switch may hold
lower(s) == IF s = "TRUE" THEN "true" ELSE IF s = "Yes" THEN "yes" ELSE s

\* what the secrets store and the environment may hold; secret_mock is
\* secrets_cfg.get("mock_mode", False), env_mock is os.getenv("BANANA_MOCK_MODE", "")
ClientInputs ==
    [secret_key : {None, "", "sk-secret"}, env_key : {None, "sk-env"},
     secret_pro : {None, "", "my-pro"},    env_pro : {None, "env-pro"},
     secret_free : {None, "", "my-lite"},  env_free : {None, "env-lite"},
     secret_mock : BOOLEAN,                env_mock : {"", "1", "TRUE", "Yes", "no"}]

\* the NanoBananaClient that get_banana_client constructs
get_banana_client(inp) ==
    [api_key    |-> or_else(inp.secret_key, inp.env_key),
     pro_model  |-> or_else(or_else(inp.secret_pro, inp.env_pro), "nano-banana-pro"),
     free_model |-> or_else(or_else(inp.secret_free, inp.env_free), "nano-banana-lite"),
     mock_mode  |-> inp.secret_mock \/ lower(inp.env_mock) \in {"1", "true", "yes"}]

\* a mutation of use_mock: mock only when requested and no key is set
use_mock_and(c) == c.mock_mode /\ ~truthy(c.api_key)

\* self.mock_mode or not self.api_key
use_mock(c) == c.mock_mode \/ ~truthy(c.api_key)

\* filter(None, seq)
RECURSIVE filter_none(_)
filter_none(seq) ==
    IF seq = <<>> THEN <<>>
    ELSE IF truthy(Head(seq)) THEN <<Head(seq)>> \o filter_none(Tail(seq))
    ELSE filter_none(Tail(seq))

\* a mutation of models_to_try: the lite model is tried first
models_to_try_lite_first(c) == filter_none(<<c.free_model, c.pro_model>>)

\* filter(None, [self.pro_model, self.free_model])
models_to_try(c) == filter_none(<<c.pro_model, c.free_model>>)

\* the text mapping of _mock_extract
placeholder_text ==
    [product_name |-> "Sample Product", price |-> "$9.99",
     spanish_copy |-> "Oferta limitada", english_copy |-> "Limited time offer"]

\* _mock_extract(image_bytes): the central crop and the placeholder text
_mock_extract == [product_image |-> "central_crop", text |-> placeholder_text]

\* a text entry of a response: a plain string, or an object
Str(s) == [t |-> "str", s |-> s, d |-> <<>>]
Obj(d) == [t |-> "dict", s |-> "", d |-> d]

\* dict.get(key) of an object's attribute
attr(d, key) == IF key \in DOMAIN d THEN d[key] ELSE None

\* _pluck_text(text_fields, key)
_pluck_text(text_fields, key) ==
    IF key \notin DOMAIN text_fields THEN ""
    ELSE LET value == text_fields[key]
         IN  IF value.t = "dict"
             THEN or_else(attr(value.d, "content"), or_else(attr(value.d, "text"), ""))
             ELSE or_else(value.s, "")

\* a mutation of normalized_text: the copies are read under their output keys
normalized_text_same_keys(text_fields) ==
    [product_name |-> _pluck_text(text_fields, "product_name"),
     price        |-> _pluck_text(text_fields, "price"),
     spanish_copy |-> _pluck_text(text_fields, "spanish_copy"),
     english_copy |-> _pluck_text(text_fields, "english_copy")]

\* the mapping `normalized` of _parse_response
normalized_text(text_fields) ==
    [product_name |-> _pluck_text(text_fields, "product_name"),
     price        |-> _pluck_text(text_fields, "price"),
     spanish_copy |-> _pluck_text(text_fields, "spanish"),
     english_copy |-> _pluck_text(text_fields, "english")]

\* the body of a response: its text object, if any, and the cut-out it
\* carries: "absent", "png" (decodes) or "garbage" (base64 of no image)
Body(payload) == [has_text |-> payload.has_text, text |-> payload.text, image |-> payload.image]
EmptyBody == [has_text |-> FALSE, text |-> <<>>, image |-> "absent"]

\* payload.get("data") or payload: the body sits under "data" (enveloped) or
\* at the top level; an empty "data" object is falsy and the payload, which
\* then holds nothing but "data", is used instead
unwrap_data(payload) ==
    IF payload.enveloped /\ Body(payload) # EmptyBody THEN Body(payload)
    ELSE IF payload.enveloped THEN EmptyBody
    ELSE Body(payload)

\* _parse_response(payload, fallback_bytes): the result, or the error raised
_parse_response(payload) ==
    LET data == unwrap_data(payload)
        text_fields == IF data.has_text THEN data.text ELSE <<>>
    IN  IF data.image = "garbage"
        THEN [ok |-> FALSE, error |-> "cannot identify image file"]
        ELSE [ok |-> TRUE,
              value |-> [product_image |-> IF data.image = "absent"
                                           THEN "uploaded_bytes" ELSE "response_cutout",
                         text |-> normalized_text(text_fields)]]

\* the shapes a text entry may have
EntryShapes ==
    {Str("Hi"), Str(""), Obj([content |-> "Hi"]), Obj([text |-> "Hola"]),
     Obj([content |-> "", text |-> "Hola"]), Obj(<<>>)}

OptEntry == {[present |-> FALSE, v |-> Str("")]} \cup {[present |-> TRUE, v |-> e] : e \in EntryShapes}
OptStray == {[present |-> FALSE, v |-> Str("")], [present |-> TRUE, v |-> Str("Stray")]}

ResponseKeys == {"product_name", "price", "spanish", "english", "spanish_copy", "english_copy"}

MakeText(choice) ==
    [k \in {j \in ResponseKeys : choice[j].present} |-> choice[k].v]

TextObjects ==
    {MakeText([product_name |-> a, price |-> b, spanish |-> c, english |-> d,
               spanish_copy |-> e, english_copy |-> e]) :
        a \in OptEntry, b \in OptEntry, c \in OptEntry, d \in OptEntry, e \in OptStray}

\* the responses _parse_response may be handed
Responses ==
    {[enveloped |-> v, has_text |-> TRUE, text |-> t, image |-> i] :
        v \in BOOLEAN, t \in TextObjects, i \in {"absent", "png", "garbage"}}
    \cup {[enveloped |-> v, has_text |-> FALSE, text |-> <<>>, image |-> i] :
        v \in BOOLEAN, i \in {"absent", "png", "garbage"}}

\* the responses the service gives in the model of extract_assets
SampleResponses ==
    {[enveloped |-> TRUE, has_text |-> FALSE, text |-> <<>>, image |-> "absent"],
     [enveloped |-> TRUE, has_text |-> TRUE, image |-> "png",
      text |-> [english |-> Obj([content |-> "Hi"])]],
     [enveloped |-> FALSE, has_text |-> TRUE, image |-> "garbage",
      text |-> [english |-> Str("Hi"), price |-> Str("$1")]],
     [enveloped |-> FALSE, has_text |-> TRUE, image |-> "absent",
      text |-> [product_name |-> Str("Sample Product"), price |-> Str("$9.99"),
                spanish |-> Str("Oferta limitada"), english |-> Str("Limited time offer")]]}

\* the failures of the request itself: transport errors and HTTP error statuses
TransportErrors == {"timed out", "500 Server Error"}

NoResponse == [enveloped |-> FALSE, has_text |-> FALSE, text |-> <<>>, image |-> "absent"]
NoResult == [product_image |-> None, text |-> <<>>]

ExtIdle ==
    /\ client = [api_key |-> None, pro_model |-> "", free_model |-> "", mock_mode |-> FALSE]
    /\ calls = <<>> /\ errors = <<>> /\ response = NoResponse
    /\ result = NoResult /\ raised = <<>> /\ ext_pc = "off"

ExtInit ==
    /\ \E inp \in ClientInputs : client = get_banana_client(inp)
    /\ calls = <<>>
    /\ errors = <<>>
    /\ response = NoResponse
    /\ result = NoResult
    /\ raised = <<>>
    /\ ext_pc = "idle"

\* extract_assets, mock branch
extract_assets_mock ==
    /\ ext_pc = "idle"
    /\ use_mock(client)
    /\ calls' = Append(calls, [fn |-> "_mock_extract", model |-> None, outcome |-> "ok"])
    /\ result' = _mock_extract
    /\ ext_pc' = "returned"
    /\ UNCHANGED <<client, errors, response, raised>>
    /\ UNCHANGED <<fitVars, wrapVars, drawVars, regVars>>

\* extract_assets, remote branch: errors = [] and the loop is entered
extract_assets_remote ==
    /\ ext_pc = "idle"
    /\ ~use_mock(client)
    /\ errors' = <<>>
    /\ ext_pc' = "loop"
    /\ UNCHANGED <<client, calls, response, result, raised>>
    /\ UNCHANGED <<fitVars, wrapVars, drawVars, regVars>>

\* one iteration of the loop whose _invoke_model returns
_invoke_model_returns ==
    /\ ext_pc = "loop"
    /\ Len(errors) < Len(models_to_try(client))
    /\ \E payload \in SampleResponses :
          LET model == models_to_try(client)[Len(errors) + 1]
              parsed == _parse_response(payload)
          IN  /\ parsed.ok
              /\ response' = payload
              /\ calls' = Append(calls, [fn |-> "_invoke_model", model |-> model, outcome |-> "ok"])
              /\ result' = parsed.value
    /\ ext_pc' = "returned"
    /\ UNCHANGED <<client, errors, raised>>
    /\ UNCHANGED <<fitVars, wrapVars, drawVars, regVars>>

\* one iteration of the loop whose _invoke_model raises: the request fails,
\* or the response does not parse
_invoke_model_raises ==
    /\ ext_pc = "loop"
    /\ Len(errors) < Len(models_to_try(client))
    /\ \E exc \in TransportErrors \cup
                  {_parse_response(p).error : p \in {q \in SampleResponses : ~_parse_response(q).ok}} :
          LET model == models_to_try(client)[Len(errors) + 1]
          IN  /\ calls' = Append(calls, [fn |-> "_invoke_model", model |-> model, outcome |-> exc])
              /\ errors' = Append(errors, <<model, exc>>)
    /\ UNCHANGED <<client, response, result, raised, ext_pc>>
    /\ UNCHANGED <<fitVars, wrapVars, drawVars, regVars>>

\* the loop is exhausted: raise RuntimeError("All ... failed: " + "; ".join(errors))
extract_assets_raises ==
    /\ ext_pc = "loop"
    /\ Len(errors) = Len(models_to_try(client))
    /\ raised' = <<[type |-> "RuntimeError", prefix |-> "All Nano Banana models failed: ",
                    joined |-> errors]>>
    /\ ext_pc' = "raised"
    /\ UNCHANGED <<client, calls, errors, response, result>>
    /\ UNCHANGED <<fitVars, wrapVars, drawVars, regVars>>

\* a further Extract & Build click: extract_assets is called again
extract_again ==
    /\ ext_pc \in {"returned", "raised"}
    /\ calls' = <<>>
    /\ errors' = <<>>
    /\ response' = NoResponse
    /\ result' = NoResult
    /\ raised' = <<>>
    /\ ext_pc' = "idle"
    /\ UNCHANGED client
    /\ UNCHANGED <<fitVars, wrapVars, drawVars, regVars>>

\* _parse_response on its own, for every shape of response
ParseInit ==
    /\ client = [api_key |-> "sk-env", pro_model |-> "nano-banana-pro",
                 free_model |-> "nano-banana-lite", mock_mode |-> FALSE]
    /\ calls = <<>> /\ errors = <<>>
    /\ response \in Responses
    /\ result = NoResult /\ raised = <<>> /\ ext_pc = "parse"

\* a call _parse_response(response, image_bytes) that returns
_parse_response_returns ==
    /\ ext_pc = "parse"
    /\ _parse_response(response).ok
    /\ result' = _parse_response(response).value
    /\ ext_pc' = "parsed"
    /\ UNCHANGED <<client, calls, errors, response, raised>>
    /\ UNCHANGED <<fitVars, wrapVars, drawVars, regVars>>

\* a call _parse_response(response, image_bytes) that raises
_parse_response_raises ==
    /\ ext_pc = "parse"
    /\ ~_parse_response(response).ok
    /\ raised' = <<[type |-> "UnidentifiedImageError", prefix |-> _parse_response(response).error,
                    joined |-> <<>>]>>
    /\ ext_pc' = "parse_failed"
    /\ UNCHANGED <<client, calls, errors, response, result>>
    /\ UNCHANGED <<fitVars, wrapVars, drawVars, regVars>>

(***************************************************************************)
(* Template registry.                                                      *)
(***************************************************************************)
MaxEntries == 3     \* most entries of a configuration

\* the "stores" entries a configuration may list; every entry has the
\* required id and template_path
FullArea == [x |-> 100, y |-> 100, width |-> 200, height |-> 200]
ConfigEntries ==
    {[id |-> i, has_name |-> n[1], name |-> n[2], template_path |-> "bg.png",
      product_area |-> a[1], text_fields |-> a[2]] :
        i \in {<<"a">>, <<"b">>},
        n \in {<<FALSE, <<>>>>, <<TRUE, <<" ", "A", " ">>>>},
        a \in {<<<<>>, <<>>>>,
               <<FullArea, [price |-> [x |-> 10, y |-> 40, size |-> 12, color |-> "#000000"]]>>,
               <<[width |-> 50], <<>>>>}}

Configs == UNION {[1..k -> ConfigEntries] : k \in 0..MaxEntries}

\* int(product_area.get(key, 0))
area_get(area, key) == IF key \in DOMAIN area THEN area[key] ELSE 0

\* the TemplateSpec _load_config builds from an entry
TemplateSpec(entry) ==
    [id |-> entry.id,
     name |-> strip(IF entry.has_name THEN entry.name ELSE entry.id),
     template_path |-> entry.template_path,
     product_area |-> <<area_get(entry.product_area, "x"), area_get(entry.product_area, "y"),
                        area_get(entry.product_area, "width"),
                        area_get(entry.product_area, "height")>>,
     text_fields |-> entry.text_fields]

\* a dict is the sequence of its items, in insertion order
dict_has(d, key) == \E i \in DOMAIN d : d[i].key = key

\* a mutation of dict_set: a key already present keeps its value
dict_set_keep_first(d, key, value) ==
    IF dict_has(d, key) THEN d ELSE Append(d, [key |-> key, value |-> value])

\* d[key] = value: a key already present keeps its place
dict_set(d, key, value) ==
    IF dict_has(d, key)
    THEN [i \in DOMAIN d |-> IF d[i].key = key THEN [key |-> key, value |-> value] ELSE d[i]]
    ELSE Append(d, [key |-> key, value |-> value])

\* list(d.values())
dict_values(d) == [i \in DOMAIN d |-> d[i].value]

\* the loop of _load_config over stores[i..]
RECURSIVE load_loop(_, _, _)
load_loop(stores, i, d) ==
    IF i > Len(stores) THEN d
    ELSE LET spec == TemplateSpec(stores[i])
         IN  load_loop(stores, i + 1, dict_set(d, spec.id, spec))

RegIdle ==
    /\ config = <<>> /\ _templates = <<>> /\ listed = <<>> /\ got = <<>> /\ reg_pc = "off"

\* TemplateManager.__init__ up to self._templates = {}
RegInit ==
    /\ config \in Configs
    /\ _templates = <<>>
    /\ listed = <<>>
    /\ got = <<>>
    /\ reg_pc = "constructing"

\* self._load_config()
_load_config ==
    /\ reg_pc = "constructing"
    /\ _templates' = load_loop(config, 1, <<>>)
    /\ reg_pc' = "loaded"
    /\ UNCHANGED <<config, listed, got>>
    /\ UNCHANGED <<fitVars, wrapVars, drawVars, extVars>>

\* available_templates(); listed holds the list last returned
available_templates ==
    /\ reg_pc = "loaded"
    /\ listed' = <<dict_values(_templates)>>
    /\ UNCHANGED <<config, _templates, got, reg_pc>>
    /\ UNCHANGED <<fitVars, wrapVars, drawVars, extVars>>

\* get(template_id); got holds the spec returned or the KeyError raised
get ==
    /\ reg_pc = "loaded"
    /\ \E template_id \in {<<"a">>, <<"b">>, <<"c">>} :
          got' = IF dict_has(_templates, template_id)
                 THEN <<[ok |-> TRUE, id |-> template_id,
                         spec |-> <<(CHOOSE i \in DOMAIN _templates :
                                        _templates[i].key = template_id)>>]>>
                 ELSE <<[ok |-> FALSE, id |-> template_id, spec |-> <<>>]>>
    /\ UNCHANGED <<config, _templates, listed, reg_pc>>
    /\ UNCHANGED <<fitVars, wrapVars, drawVars, extVars>>

(***************************************************************************)
(* Specifications, one per component.                                      *)
(***************************************************************************)
FitNext == paste_centered
InitFit == FitInit /\ WrapIdle /\ DrawIdle /\ ExtIdle /\ RegIdle
SpecFit == InitFit /\ [][FitNext]_vars

WrapNext == WrapText
InitWrap == FitIdle /\ WrapInit /\ DrawIdle /\ ExtIdle /\ RegIdle
SpecWrap == InitWrap /\ [][WrapNext]_vars

DrawNext == draw_text_fields
InitDraw == FitIdle /\ WrapIdle /\ DrawInit /\ ExtIdle /\ RegIdle
SpecDraw == InitDraw /\ [][DrawNext]_vars

ExtNext ==
    \/ extract_assets_mock
    \/ extract_assets_remote
    \/ _invoke_model_returns
    \/ _invoke_model_raises
    \/ extract_assets_raises
    \/ extract_again
InitExtract == FitIdle /\ WrapIdle /\ DrawIdle /\ ExtInit /\ RegIdle
SpecExtract == InitExtract /\ [][ExtNext]_vars

ParseNext == _parse_response_returns \/ _parse_response_raises
InitParse == FitIdle /\ WrapIdle /\ DrawIdle /\ ParseInit /\ RegIdle
SpecParse == InitParse /\ [][ParseNext]_vars

RegNext == _load_config \/ available_templates \/ get
InitRegistry == FitIdle /\ WrapIdle /\ DrawIdle /\ ExtIdle /\ RegInit
SpecRegistry == InitRegistry /\ [][RegNext]_vars

(***************************************************************************)
(* Properties of the proportional fit (SpecFit).                           *)
(***************************************************************************)
Abs(n) == IF n < 0 THEN -n ELSE n

\* the exact scaled value of dimension d, as a fraction <<numerator, denominator>>:
\* d * min(w/W, h/H) for the source size <<W, H>> and the target size <<w, h>>
ExactScaled(d, size, w, h) ==
    IF w * size[2] <= h * size[1] THEN <<d * w, size[1]>> ELSE <<d * h, size[2]>>

ExactWidth == ExactScaled(overlay_size[1], overlay_size, product_area[3], product_area[4])
ExactHeight == ExactScaled(overlay_size[2], overlay_size, product_area[3], product_area[4])

\* C1: for every target rectangle and every source image, the scaled image is
\* no wider and no taller than the rectangle, and one of its two dimensions
\* equals its bound.  Stated for the rectangles of positive width and height:
\* an empty rectangle (the default of _load_config) cannot hold the image of
\* at least 1x1 that resize_to_fit returns
C1_FitsAndFills ==
    (fit_pc = "pasted" /\ product_area[3] >= 1 /\ product_area[4] >= 1) =>
        /\ new_size[1] <= product_area[3]
        /\ new_size[2] <= product_area[4]
        /\ (new_size[1] = product_area[3] \/ new_size[2] = product_area[4])

\* v is q rounded to the nearest integer (a tie may go either way), at least 1
IsNearest(v, q) ==
    \E r \in (v - 1)..v : 2 * Abs(r * q[2] - q[1]) <= q[2] /\ v = Max(1, r)

IsTruncated(v, q) ==
    \/ v = Max(1, q[1] \div q[2])
    \/ q[1] % q[2] = 0 /\ v = Max(1, (q[1] \div q[2]) - 1)

C8_Centered ==
    fit_pc = "pasted" =>
        /\ Abs(2 * paste_at[1] + new_size[1] - (2 * product_area[1] + product_area[3])) <= 2
        /\ Abs(2 * paste_at[2] + new_size[2] - (2 * product_area[2] + product_area[4])) <= 2

\* the example of the design: the 200x50 image is pasted at (100, 175)
C8_Witness ==
    /\ fit_pc = "pasted"
    /\ overlay_size = <<400, 100>> /\ product_area = <<100, 100, 200, 200>>
    /\ paste_at = <<100, 175>>

(***************************************************************************)
(* Properties of the word wrap (SpecWrap) and of the text fields (SpecDraw)*)
(***************************************************************************)
Chars(s) == {s[i] : i \in DOMAIN s}

\* C3: splitting the output of wrap_text on whitespace yields the word sequence
\* of the input: the same words in the same order
C3_WordsPreserved ==
    wrap_pc = "wrapped" => split(wrapped) = split(text)

\* three words wrapped over two lines, one of them holding two words
C3_Witness ==
    /\ wrap_pc = "wrapped"
    /\ Len(split(text)) = 3
    /\ "\n" \in Chars(wrapped) /\ " " \in Chars(wrapped)

\* C4: the text drawn for the price field holds no line break, whatever the
\* words and the whitespace of the price string
C4_PriceOneLine ==
    draw_pc = "drawn" =>
        \A i \in DOMAIN drawn :
            drawn[i].key = "price" =>
                /\ "\n" \notin Chars(drawn[i].text)
                /\ drawn[i].width = Len(text_payload["price"]) + 4

\* a price of several words, longer than the width of the other fields, is drawn
C4_Witness ==
    /\ draw_pc = "drawn"
    /\ \E i \in DOMAIN drawn :
          /\ drawn[i].key = "price"
          /\ Len(text_payload["price"]) > 20
          /\ Len(split(drawn[i].text)) > 3

\* C9: a field is drawn if and only if its key is in the layout and the payload
\* holds non-empty content for it, once, in layout order; every drawn field
\* other than price is wrapped with width 20
C9_DrawnIffContent ==
    draw_pc = "drawn" =>
        /\ \A key \in LayoutKeys \cup PayloadKeys :
              (\E i \in DOMAIN drawn : drawn[i].key = key)
                  <=> /\ \E j \in DOMAIN text_specs : text_specs[j] = key
                      /\ key \in DOMAIN text_payload
                      /\ text_payload[key] # <<>>
        /\ \A i, j \in DOMAIN drawn :
              i < j => \E a, b \in DOMAIN text_specs :
                          a < b /\ text_specs[a] = drawn[i].key /\ text_specs[b] = drawn[j].key
        /\ \A i \in DOMAIN drawn :
              drawn[i].key # "price" =>
                  /\ drawn[i].width = 20
                  /\ drawn[i].text = wrap_text(text_payload[drawn[i].key], 20)

\* a field with no content is skipped and a later field is drawn, wrapped at 20
C9_Witness ==
    /\ draw_pc = "drawn"
    /\ Len(text_specs) = 3
    /\ \E i \in DOMAIN drawn :
          /\ drawn[i].key = "product_name"
          /\ "\n" \in Chars(drawn[i].text)
          /\ \E j \in DOMAIN text_specs :
                /\ text_specs[j] = "price"
                /\ \E k \in DOMAIN text_specs : k > j /\ text_specs[k] = "product_name"
    /\ "price" \in DOMAIN text_payload /\ text_payload["price"] = <<>>
    /\ Len(drawn) = 1

(***************************************************************************)
(* Properties of the extraction client (SpecExtract, SpecParse).           *)
(***************************************************************************)
RemoteMode == ~client.mock_mode /\ truthy(client.api_key)

\* C2: in remote mode the pro model is invoked first and the lite model only
\* after the pro invocation failed, each at most once; the first success is
\* returned with no further invocation; when both fail one error is raised,
\* holding both failure messages in attempt order
C2_ProThenLite ==
    RemoteMode =>
        /\ Len(calls) <= 2
        /\ \A i \in DOMAIN calls : calls[i].fn = "_invoke_model"
        /\ client.pro_model # client.free_model
        /\ Len(calls) >= 1 => calls[1].model = client.pro_model
        /\ Len(calls) = 2 => calls[2].model = client.free_model /\ calls[1].outcome # "ok"
        /\ ext_pc = "returned" =>
              /\ calls # <<>> /\ calls[Len(calls)].outcome = "ok"
              /\ result = _parse_response(response).value
              /\ raised = <<>>
        /\ ext_pc = "raised" =>
              /\ Len(calls) = 2 /\ calls[1].outcome # "ok" /\ calls[2].outcome # "ok"
              /\ Len(raised) = 1
              /\ raised[1].joined = << <<client.pro_model, calls[1].outcome>>,
                                       <<client.free_model, calls[2].outcome>> >>
        /\ ext_pc \notin {"returned", "raised"} =>
              (\A i \in DOMAIN calls : calls[i].outcome # "ok") /\ raised = <<>>

\* both models failed, with different messages, and the error is raised
C2_Witness ==
    /\ RemoteMode
    /\ ext_pc = "raised"
    /\ Len(calls) = 2
    /\ calls[1].outcome = "timed out" /\ calls[2].outcome = "500 Server Error"

\* C5: when mock mode is requested or no API key is set, no model is invoked
\* and the text returned is the four placeholder constants; when mock mode is
\* off and an API key is set, the mock path is never taken
C5_MockOnlyWhenAsked ==
    /\ (client.mock_mode \/ ~truthy(client.api_key)) =>
          /\ \A i \in DOMAIN calls : calls[i].fn # "_invoke_model"
          /\ ext_pc \in {"idle", "returned"}
          /\ raised = <<>>
          /\ ext_pc = "returned" =>
                /\ calls = <<[fn |-> "_mock_extract", model |-> None, outcome |-> "ok"]>>
                /\ result.text = [product_name |-> "Sample Product", price |-> "$9.99",
                                  spanish_copy |-> "Oferta limitada",
                                  english_copy |-> "Limited time offer"]
    /\ (~client.mock_mode /\ truthy(client.api_key)) =>
          /\ \A i \in DOMAIN calls : calls[i].fn # "_mock_extract"
          /\ result.product_image # "central_crop"

\* mock mode is requested although an API key is set, and the placeholders return
C5_Witness ==
    /\ ext_pc = "returned"
    /\ client.mock_mode /\ truthy(client.api_key)
    /\ result.text.price = "$9.99"

\* the value the text entry `key` of the response stands for, where the entry
\* is absent, a plain string, or an object with only content or only text
EntryMeans(key, s) ==
    LET t == response.text
    IN  \/ (~response.has_text \/ key \notin DOMAIN t) /\ s = ""
        \/ response.has_text /\ key \in DOMAIN t /\ t[key].t = "str" /\ s = t[key].s
        \/ /\ response.has_text /\ key \in DOMAIN t /\ t[key].t = "dict"
           /\ \/ DOMAIN t[key].d = {"content"} /\ s = t[key].d["content"]
              \/ DOMAIN t[key].d = {"text"} /\ s = t[key].d["text"]
              \/ DOMAIN t[key].d \notin {{"content"}, {"text"}}

\* C6: _parse_response returns a text mapping with exactly the four keys, the
\* two copies taken from the response keys spanish and english; a plain string
\* s and an object {"content": s} both give s, an absent key gives ""
C6_Normalized ==
    ext_pc = "parsed" =>
        /\ DOMAIN result.text = {"product_name", "price", "spanish_copy", "english_copy"}
        /\ EntryMeans("product_name", result.text["product_name"])
        /\ EntryMeans("price", result.text["price"])
        /\ EntryMeans("spanish", result.text["spanish_copy"])
        /\ EntryMeans("english", result.text["english_copy"])

\* english is an object with content, spanish a plain string, price is absent,
\* and the response also holds a stray spanish_copy key
C6_Witness ==
    /\ ext_pc = "parsed"
    /\ response.has_text
    /\ DOMAIN response.text = {"product_name", "spanish", "english", "spanish_copy", "english_copy"}
    /\ response.text["english"] = Obj([content |-> "Hi"])
    /\ response.text["spanish"] = Str("Hi")
    /\ result.text["english_copy"] = "Hi" /\ result.text["spanish_copy"] = "Hi"
    /\ result.text["price"] = ""

(***************************************************************************)
(* Properties of the template registry (SpecRegistry).                     *)
(***************************************************************************)
\* C10 as stated: available_templates returns one spec per configuration
\* entry, the i-th being the one parsed from the i-th entry, and the registry
\* holds the same content after every later call
C10_OnePerEntry ==
    listed # <<>> =>
        /\ Len(listed[1]) = Len(config)
        /\ \A i \in DOMAIN config : listed[1][i] = TemplateSpec(config[i])

FirstEntry(id) == CHOOSE i \in DOMAIN config :
                      config[i].id = id /\ \A j \in DOMAIN config : config[j].id = id => i <= j
LastEntry(id) == CHOOSE i \in DOMAIN config :
                      config[i].id = id /\ \A j \in DOMAIN config : config[j].id = id => j <= i

\* specs is the list of the registry for the configuration: one spec per id,
\* in the order in which the ids first appear, each parsed from the last entry
\* of its id
IsRegistryOf(specs) ==
    /\ \A i, j \in DOMAIN specs : i # j => specs[i].id # specs[j].id
    /\ {specs[i].id : i \in DOMAIN specs} = {config[j].id : j \in DOMAIN config}
    /\ \A i \in DOMAIN specs : specs[i] = TemplateSpec(config[LastEntry(specs[i].id)])
    /\ \A i, j \in DOMAIN specs : i < j => FirstEntry(specs[i].id) < FirstEntry(specs[j].id)

\* C10 as amended: available_templates returns one spec per distinct id, in
\* the file order of the ids' first entries, each parsed from the last entry
\* with that id (so one spec per entry, the i-th from the i-th entry, when the
\* ids are pairwise distinct), and the registry holds the same content after
\* every later call
C10_OnePerId ==
    /\ listed # <<>> =>
          /\ IsRegistryOf(listed[1])
          /\ (\A i, j \in DOMAIN config : i # j => config[i].id # config[j].id)
                => /\ Len(listed[1]) = Len(config)
                   /\ \A i \in DOMAIN config : listed[1][i] = TemplateSpec(config[i])
    /\ reg_pc = "loaded" => IsRegistryOf(dict_values(_templates))

\* three entries, the first and the last with the same id and different
\* content, listed after a get
C10_Witness ==
    /\ listed # <<>> /\ got # <<>>
    /\ Len(config) = 3
    /\ config[1].id = config[3].id /\ config[1] # config[3] /\ config[2].id # config[1].id
    /\ Len(listed[1]) = 2
    /\ listed[1][1] = TemplateSpec(config[3])

====
